---- MODULE Spec2Model ----
(***************************************************************************)
(* Model of the two SFTP mirroring jobs of this repository:                *)
(*   SFTP_Cliente1.py  two destination roots (uploads + processados),      *)
(*                     exact-day filter;                                   *)
(*   SFTP_Cliente2.py  one destination root, window filter with pruning    *)
(*                     of old directories at level 0.                      *)
(* A remote path is the sequence of its segments: "/dst/uploads/a/y" is    *)
(* <<"dst","uploads","a","y">>.  A remote file system is a function from   *)
(* the paths that exist to their attributes.                               *)
(***************************************************************************)
EXTENDS Integers, Sequences, FiniteSets, TLC

VARIABLES
    cfg,              \* job configuration: variant, keep_extra_local_copy
    srcFs,            \* source SFTP server
    dstFs,            \* destination SFTP server
    staged,           \* local scratch area cfg.temp_dir: rel_path -> size
    remoteLogs,       \* runs whose log file reached cfg.destino_log_dir
    run,              \* number of the current execution of main()
    pc,               \* position of main()
    arquivos_dest,    \* arquivos_dest_rel (Cliente1) / arquivos_destino (Cliente2)
    arquivos_origem,  \* source snapshot, in dict order
    idx,              \* position of the for loop in arquivos_origem
    status,           \* StatusContador
    decisao,          \* branch taken for the current entry
    rmFalhou,         \* the removal of the current entry raised
    k,                \* position of the loop of ensure_remote_dirs
    ops,              \* remote calls issued in this run, in order
    hist,             \* entries of this run that reached a terminal outcome
    resumo,           \* counters rendered by log_resumo, <<>> before
    shipAttempts,     \* executions of the log upload step in this run
    naoListavel,      \* destination directories whose listdir_attr raises
    walk,             \* a call of listar_arquivos_sftp_recursivo on its own
    envio             \* callers of ensure_remote_dirs on the destination

vars == <<cfg, srcFs, dstFs, staged, remoteLogs, run, pc, arquivos_dest,
          arquivos_origem, idx, status, decisao, rmFalhou, k, ops, hist,
          resumo, shipAttempts, naoListavel, walk, envio>>

---------------------------------------------------------------------------
(* Bounds of the model *)

MaxRuns == 2          \* executions of main() in a row
MaxFiles == 3         \* files on the two servers at the start, a directory
                      \* that cannot be listed counting as one
MaxChamadas == 2      \* entries a run publishes into one directory

(* Dates are day numbers. *)
Today == 3
DaysBack == 2
Old == Today - DaysBack - 1
NoFilter == -1

data_hoje == Today
data_limite == Today - DaysBack

---------------------------------------------------------------------------
(* Configuration (load_job_config) *)

OrigemDir == <<"src">>
DestinoDir == <<"dst", "uploads">>
ProcessadosDir == <<"dst", "proc">>
LogDir == <<"dst", "logs">>

RelFiles == {<<"x">>, <<"a", "y">>, <<"a", "b", "z">>}

(* Order in which a server lists the names of a directory. *)
NameRank(n) ==
    CASE n = "a" -> 1 [] n = "b" -> 2 [] n = "x" -> 3 [] n = "y" -> 4
      [] n = "z" -> 5 [] OTHER -> 6

---------------------------------------------------------------------------
(* Paths *)

IsPrefix(p, q) == Len(p) <= Len(q) /\ SubSeq(q, 1, Len(p)) = p

Prefixes(p) == {SubSeq(p, 1, n) : n \in 1..Len(p)}

Last(p) == p[Len(p)]

dirname(p) == SubSeq(p, 1, Len(p) - 1)

relpath(caminho, start) ==
    IF IsPrefix(start, caminho)
    THEN SubSeq(caminho, Len(start) + 1, Len(caminho))
    ELSE caminho

(* str.replace(prefix + "/", "") on a path that holds the prefix at most
   once, at its start. *)
StripDir(caminho, dir) ==
    IF IsPrefix(dir, caminho) /\ Len(caminho) > Len(dir)
    THEN SubSeq(caminho, Len(dir) + 1, Len(caminho))
    ELSE caminho

---------------------------------------------------------------------------
(* Remote file systems *)

DirNode(m) == [dir |-> TRUE, tamanho |-> 0, mtime |-> m]
FileNode(s, m) == [dir |-> FALSE, tamanho |-> s, mtime |-> m]

exists(fs, p) == p \in DOMAIN fs

Children(fs, d) == {p \in DOMAIN fs : Len(p) = Len(d) + 1 /\ IsPrefix(d, p)}

RECURSIVE SortByName(_)
SortByName(S) ==
    IF S = {} THEN <<>>
    ELSE LET first == CHOOSE p \in S :
                          \A q \in S : NameRank(Last(p)) <= NameRank(Last(q))
         IN  <<first>> \o SortByName(S \ {first})

(* listdir_attr raises on a path that is missing, is a file, or that the
   server refuses to list. *)
CanList(fs, bad, d) == d \in DOMAIN fs /\ fs[d].dir /\ d \notin bad

listdir_attr(fs, d) == SortByName(Children(fs, d))

(* A create or a delete of an entry updates the mtime of its directory. *)
Touch(fs, d) ==
    IF d \in DOMAIN fs THEN [fs EXCEPT ![d].mtime = Today] ELSE fs

Remove(fs, p) == Touch([q \in DOMAIN fs \ {p} |-> fs[q]], dirname(p))

Mkdir(fs, p) == Touch((p :> DirNode(Today)) @@ fs, dirname(p))

Put(fs, p, s) ==
    IF p \in DOMAIN fs
    THEN [fs EXCEPT ![p] = FileNode(s, Today)]
    ELSE Touch((p :> FileNode(s, Today)) @@ fs, dirname(p))

---------------------------------------------------------------------------
(* Snapshots.  A dict is a sequence of entries with distinct keys, in
   insertion order. *)

Entry(p, n) == [caminho |-> p, tamanho |-> n.tamanho, data |-> n.mtime]

RECURSIVE listar1(_, _, _, _), listar1_entries(_, _, _, _, _)

(* SFTP_Cliente1.listar_arquivos_sftp_recursivo *)
listar1(fs, bad, remote_dir, filtro_data) ==
    IF CanList(fs, bad, remote_dir)
    THEN listar1_entries(fs, bad, listdir_attr(fs, remote_dir), filtro_data, 1)
    ELSE <<>>

(* Variant: a directory that cannot be listed ends the loop of its parent. *)
listar1_entries_PararNoErro(fs, bad, entries, filtro_data, i) ==
    IF i > Len(entries) THEN <<>>
    ELSE LET caminho_remoto == entries[i]
             entry == fs[caminho_remoto]
         IN  IF entry.dir /\ ~CanList(fs, bad, caminho_remoto) THEN <<>>
             ELSE (IF entry.dir
                   THEN listar1(fs, bad, caminho_remoto, filtro_data)
                   ELSE IF filtro_data = NoFilter \/ entry.mtime = filtro_data
                        THEN <<Entry(caminho_remoto, entry)>>
                        ELSE <<>>)
                  \o listar1_entries(fs, bad, entries, filtro_data, i + 1)

(* Variant: the filter is a lower bound, as in the window walker. *)
listar1_entries_DataMinima(fs, bad, entries, filtro_data, i) ==
    IF i > Len(entries) THEN <<>>
    ELSE LET caminho_remoto == entries[i]
             entry == fs[caminho_remoto]
         IN  (IF entry.dir
              THEN listar1(fs, bad, caminho_remoto, filtro_data)
              ELSE IF filtro_data = NoFilter \/ entry.mtime >= filtro_data
                   THEN <<Entry(caminho_remoto, entry)>>
                   ELSE <<>>)
             \o listar1_entries(fs, bad, entries, filtro_data, i + 1)

listar1_entries(fs, bad, entries, filtro_data, i) ==
    IF i > Len(entries) THEN <<>>
    ELSE LET caminho_remoto == entries[i]
             entry == fs[caminho_remoto]
             found ==
                 IF entry.dir
                 THEN listar1(fs, bad, caminho_remoto, filtro_data)
                 ELSE IF filtro_data = NoFilter \/ entry.mtime = filtro_data
                      THEN <<Entry(caminho_remoto, entry)>>
                      ELSE <<>>
         IN  found \o listar1_entries(fs, bad, entries, filtro_data, i + 1)

RECURSIVE listar2(_, _, _, _, _), listar2_entries(_, _, _, _, _, _)

(* SFTP_Cliente2.listar_arquivos_sftp_recursivo *)
listar2(fs, bad, remote_dir, nivel, filtro_data_min) ==
    IF CanList(fs, bad, remote_dir)
    THEN listar2_entries(fs, bad, listdir_attr(fs, remote_dir), nivel,
                         filtro_data_min, 1)
    ELSE <<>>

(* Variant: old directories are skipped at every level. *)
listar2_entries_PodaTodoNivel(fs, bad, entries, nivel, filtro_data_min, i) ==
    IF i > Len(entries) THEN <<>>
    ELSE LET caminho_remoto == entries[i]
             entry == fs[caminho_remoto]
         IN  (IF entry.dir
              THEN IF filtro_data_min # NoFilter
                      /\ entry.mtime < filtro_data_min
                   THEN <<>>
                   ELSE listar2(fs, bad, caminho_remoto, nivel + 1,
                                filtro_data_min)
              ELSE IF filtro_data_min = NoFilter
                      \/ entry.mtime >= filtro_data_min
                   THEN <<Entry(caminho_remoto, entry)>>
                   ELSE <<>>)
             \o listar2_entries(fs, bad, entries, nivel, filtro_data_min, i + 1)

listar2_entries(fs, bad, entries, nivel, filtro_data_min, i) ==
    IF i > Len(entries) THEN <<>>
    ELSE LET caminho_remoto == entries[i]
             entry == fs[caminho_remoto]
             found ==
                 IF entry.dir
                 THEN IF nivel = 0 /\ filtro_data_min # NoFilter
                         /\ entry.mtime < filtro_data_min
                      THEN <<>>
                      ELSE listar2(fs, bad, caminho_remoto, nivel + 1,
                                   filtro_data_min)
                 ELSE IF filtro_data_min = NoFilter
                         \/ entry.mtime >= filtro_data_min
                      THEN <<Entry(caminho_remoto, entry)>>
                      ELSE <<>>
         IN  found \o listar2_entries(fs, bad, entries, nivel,
                                      filtro_data_min, i + 1)

Keys(d) == {d[i].caminho : i \in DOMAIN d}

(* {**a, **b} *)
DictMerge(a, b) ==
    LET over(e) == IF e.caminho \in Keys(b)
                   THEN b[CHOOSE j \in DOMAIN b : b[j].caminho = e.caminho]
                   ELSE e
        fresh(e) == e.caminho \notin Keys(a)
    IN  [i \in DOMAIN a |-> over(a[i])] \o SelectSeq(b, fresh)

(* Relative key of a destination path, Cliente1 main(). *)
DestRel(caminho) ==
    IF \E i \in 1..(Len(caminho) - 1) : caminho[i] = "uploads"
    THEN LET i == CHOOSE i \in 1..(Len(caminho) - 1) :
                      /\ caminho[i] = "uploads"
                      /\ \A j \in 1..(i - 1) : caminho[j] # "uploads"
         IN  SubSeq(caminho, i + 1, Len(caminho))
    ELSE StripDir(StripDir(caminho, DestinoDir), ProcessadosDir)

Dados(e) == [tamanho |-> e.tamanho, data |-> e.data]

(* d[key] = dados for each entry in order: the last write of a key stays. *)
Index(d) ==
    [r \in Keys(d) |->
        LET j == CHOOSE j \in DOMAIN d :
                     /\ d[j].caminho = r
                     /\ \A m \in DOMAIN d : d[m].caminho = r => m <= j
        IN  Dados(d[j])]

(* The entries of a destination dict under their relative keys. *)
RelKeyed(d) == [i \in DOMAIN d |-> [d[i] EXCEPT !.caminho = DestRel(@)]]

(* Variant: the two dicts merged in the other order, {**proc, **uploads}. *)
arquivos_dest_rel_UploadsPorUltimo(uploads, proc) ==
    Index(RelKeyed(DictMerge(proc, uploads)))

arquivos_dest_rel(uploads, proc) == Index(RelKeyed(DictMerge(uploads, proc)))

arquivos_destino(lista) == Index(lista)

---------------------------------------------------------------------------
(* Per-entry values of the for loop of main() *)

Cur == arquivos_origem[idx]

rel_path == relpath(Cur.caminho, OrigemDir)

(* Variant: the destination path keeps the file name only. *)
destino_path_SemPastas == DestinoDir \o <<Last(rel_path)>>

(* Variant: the destination path is built on the processed root. *)
destino_path_RaizProcessados == ProcessadosDir \o rel_path

destino_path == DestinoDir \o rel_path

pasta_dest == dirname(destino_path)

(* Key under which the entry is looked up in the destination snapshot. *)
ChaveDestino == IF cfg.variant = "cliente1" THEN rel_path ELSE destino_path

(* Variant: equality also compares the modification dates. *)
Decidir_ComData(chave, dados, dest) ==
    IF chave \in DOMAIN dest
    THEN IF dest[chave].tamanho = dados.tamanho /\ dest[chave].data = dados.data
         THEN "Skip" ELSE "Replace"
    ELSE "Create"

(* The if / else of "Decide ação". *)
Decidir(chave, dados, dest) ==
    IF chave \in DOMAIN dest
    THEN IF dest[chave].tamanho = dados.tamanho THEN "Skip" ELSE "Replace"
    ELSE "Create"

---------------------------------------------------------------------------
(* Initial states: a configuration, a source tree and a destination tree. *)

ZeroStatus ==
    [novos |-> 0, iguais |-> 0, reenviados |-> 0, erros_download |-> 0,
     erros_upload |-> 0, erros_remocao |-> 0]

Absent == [present |-> FALSE, tamanho |-> 0, mtime |-> 0]
Arq(s, m) == [present |-> TRUE, tamanho |-> s, mtime |-> m]

SrcOpts(r) ==
    IF r = <<"x">>
    THEN {Absent, Arq(1, Today), Arq(2, Today), Arq(2, data_limite)}
    ELSE IF r = <<"a", "y">> THEN {Absent, Arq(2, Today)}
    ELSE {Absent, Arq(1, Today)}

UpOpts == {Absent, Arq(1, Today), Arq(1, data_limite)}

ProcOpts == {Absent, Arq(1, Today), Arq(2, Today)}

AllOpts == UNION {SrcOpts(r) : r \in RelFiles} \cup UpOpts \cup ProcOpts

Present(choice) == {r \in RelFiles : choice[r].present}

(* The tree under root that holds the chosen files; a directory right
   below the root has mtime dirM, a deeper one is old. *)
Tree(root, choice, dirM) ==
    LET files == Present(choice)
        below == UNION {{root \o q : q \in Prefixes(r)} : r \in files}
    IN  [p \in Prefixes(root) \cup below |->
            IF relpath(p, root) \in files /\ Len(p) > Len(root)
            THEN FileNode(choice[relpath(p, root)].tamanho,
                          choice[relpath(p, root)].mtime)
            ELSE IF Len(p) <= Len(root) THEN DirNode(Today)
            ELSE IF Len(p) = Len(root) + 1 THEN DirNode(dirM)
            ELSE DirNode(Old)]

(* Directories whose listing the destination server may refuse. *)
BadDest == {{}, {DestinoDir}}

Init ==
    \E variant \in {"cliente1", "cliente2"}, keep \in BOOLEAN,
       src \in [RelFiles -> AllOpts], up \in [RelFiles -> UpOpts],
       proc \in [RelFiles -> ProcOpts], dirM \in {Old, Today},
       bad \in BadDest :
        /\ \A r \in RelFiles : src[r] \in SrcOpts(r)
        /\ variant = "cliente1" => ~keep /\ dirM = Today
        /\ variant = "cliente2" => Present(proc) = {}
        /\ Cardinality(Present(src)) + Cardinality(Present(up))
               + Cardinality(Present(proc)) + Cardinality(bad) <= MaxFiles
        /\ cfg = [variant |-> variant, keep_extra_local_copy |-> keep]
        /\ srcFs = Tree(OrigemDir, src, Today)
        /\ dstFs = Tree(DestinoDir, up, dirM) @@ Tree(ProcessadosDir, proc, Today)
        /\ staged = <<>>
        /\ remoteLogs = {}
        /\ run = 1
        /\ pc = "list_dest"
        /\ arquivos_dest = <<>>
        /\ arquivos_origem = <<>>
        /\ idx = 1
        /\ status = ZeroStatus
        /\ decisao = "none"
        /\ rmFalhou = FALSE
        /\ k = 0
        /\ ops = <<>>
        /\ hist = <<>>
        /\ resumo = <<>>
        /\ shipAttempts = 0
        /\ naoListavel = bad
        /\ walk = <<>>
        /\ envio = <<>>

---------------------------------------------------------------------------
(* main(): the two snapshot phases *)

Op(o, p) == [op |-> o, rel |-> rel_path, path |-> p, ok |-> TRUE]

(* A remote call that raised. *)
OpFalha(o, p) == [op |-> o, rel |-> rel_path, path |-> p, ok |-> FALSE]

(* pysftp.Connection raises for the listing session: nothing catches it. *)
ConexaoDestinoFalha ==
    /\ pc = "list_dest"
    /\ pc' = "aborted"
    /\ UNCHANGED <<cfg, srcFs, dstFs, staged, remoteLogs, run, arquivos_dest,
                   arquivos_origem, idx, status, decisao, rmFalhou, k, ops,
                   hist, resumo, shipAttempts, naoListavel,
                   walk, envio>>

ListarDestino ==
    /\ pc = "list_dest"
    /\ arquivos_dest' =
           IF cfg.variant = "cliente1"
           THEN arquivos_dest_rel(
                    listar1(dstFs, naoListavel, DestinoDir, data_hoje),
                    listar1(dstFs, naoListavel, ProcessadosDir, data_hoje))
           ELSE arquivos_destino(
                    listar2(dstFs, naoListavel, DestinoDir, 0, data_limite))
    /\ pc' = "list_src"
    /\ UNCHANGED <<cfg, srcFs, dstFs, staged, remoteLogs, run,
                   arquivos_origem, idx, status, decisao, rmFalhou, k, ops,
                   hist, resumo, shipAttempts, naoListavel,
                   walk, envio>>

ConexaoOrigemFalha ==
    /\ pc = "list_src"
    /\ pc' = "aborted"
    /\ UNCHANGED <<cfg, srcFs, dstFs, staged, remoteLogs, run, arquivos_dest,
                   arquivos_origem, idx, status, decisao, rmFalhou, k, ops,
                   hist, resumo, shipAttempts, naoListavel,
                   walk, envio>>

ListarOrigem ==
    /\ pc = "list_src"
    /\ arquivos_origem' =
           IF cfg.variant = "cliente1"
           THEN listar1(srcFs, {}, OrigemDir, data_hoje)
           ELSE listar2(srcFs, {}, OrigemDir, 0, data_limite)
    /\ idx' = 1
    /\ pc' = "loop"
    /\ UNCHANGED <<cfg, srcFs, dstFs, staged, remoteLogs, run, arquivos_dest,
                   status, decisao, rmFalhou, k, ops, hist, resumo,
                   shipAttempts, naoListavel,
                   walk, envio>>

---------------------------------------------------------------------------
(* main(): the for loop over arquivos_origem *)

InLoop == pc = "loop" /\ idx <= Len(arquivos_origem)

Decisao == Decidir(ChaveDestino, Cur, arquivos_dest)

Fim(d, rm, f) ==
    [rel |-> rel_path, decisao |-> d, rmFalhou |-> rm, fim |-> f,
     tamanho |-> Cur.tamanho]

(* The entry reached its terminal outcome: next iteration. *)
Terminar(f) ==
    /\ hist' = Append(hist, Fim(decisao, rmFalhou, f))
    /\ idx' = idx + 1
    /\ pc' = "loop"
    /\ decisao' = "none"
    /\ rmFalhou' = FALSE
    /\ k' = 0

(* Variant: the continue of the equal-size branch is missing. *)
Pular_SemContinue ==
    /\ InLoop
    /\ Decisao = "Skip"
    /\ status' = [status EXCEPT !.iguais = @ + 1]
    /\ decisao' = "Skip"
    /\ pc' = "download"
    /\ UNCHANGED <<cfg, srcFs, dstFs, staged, remoteLogs, run, arquivos_dest,
                   arquivos_origem, idx, rmFalhou, k, ops, hist, resumo,
                   shipAttempts, naoListavel,
                   walk, envio>>

(* Same size: "pulando", continue. *)
Pular ==
    /\ InLoop
    /\ Decisao = "Skip"
    /\ status' = [status EXCEPT !.iguais = @ + 1]
    /\ hist' = Append(hist, Fim("Skip", FALSE, "Skipped"))
    /\ idx' = idx + 1
    /\ UNCHANGED <<cfg, srcFs, dstFs, staged, remoteLogs, run, pc,
                   arquivos_dest, arquivos_origem, decisao, rmFalhou, k, ops,
                   resumo, shipAttempts, naoListavel,
                   walk, envio>>

(* Variant: the removal block is missing. *)
IniciarReenvio_SemRemocao ==
    /\ InLoop
    /\ Decisao = "Replace"
    /\ decisao' = "Replace"
    /\ status' = [status EXCEPT !.reenviados = @ + 1]
    /\ pc' = "download"
    /\ UNCHANGED <<cfg, srcFs, dstFs, staged, remoteLogs, run, arquivos_dest,
                   arquivos_origem, idx, rmFalhou, k, ops, hist, resumo,
                   shipAttempts, naoListavel,
                   walk, envio>>

(* Different size: enter the removal block. *)
IniciarReenvio ==
    /\ InLoop
    /\ Decisao = "Replace"
    /\ decisao' = "Replace"
    /\ pc' = "remove"
    /\ UNCHANGED <<cfg, srcFs, dstFs, staged, remoteLogs, run, arquivos_dest,
                   arquivos_origem, idx, status, rmFalhou, k, ops, hist,
                   resumo, shipAttempts, naoListavel,
                   walk, envio>>

(* Not in the destination snapshot: status.novos += 1. *)
NovoArquivo ==
    /\ InLoop
    /\ Decisao = "Create"
    /\ decisao' = "Create"
    /\ status' = [status EXCEPT !.novos = @ + 1]
    /\ pc' = "download"
    /\ UNCHANGED <<cfg, srcFs, dstFs, staged, remoteLogs, run, arquivos_dest,
                   arquivos_origem, idx, rmFalhou, k, ops, hist, resumo,
                   shipAttempts, naoListavel,
                   walk, envio>>

(* Variant: the stale object is left in place for the put to overwrite. *)
RemoverOk_DeixaObjeto ==
    /\ pc = "remove"
    /\ ops' = IF exists(dstFs, destino_path)
              THEN ops \o <<Op("exists", destino_path),
                            Op("remove", destino_path)>>
              ELSE Append(ops, Op("exists", destino_path))
    /\ status' = [status EXCEPT !.reenviados = @ + 1]
    /\ rmFalhou' = FALSE
    /\ pc' = "download"
    /\ UNCHANGED <<cfg, srcFs, dstFs, staged, remoteLogs, run, arquivos_dest,
                   arquivos_origem, idx, decisao, k, hist, resumo,
                   shipAttempts, naoListavel, walk, envio>>

(* Removal session: exists, then remove; status.reenviados += 1 follows. *)
RemoverOk ==
    /\ pc = "remove"
    /\ IF exists(dstFs, destino_path)
       THEN /\ dstFs' = Remove(dstFs, destino_path)
            /\ ops' = ops \o <<Op("exists", destino_path),
                               Op("remove", destino_path)>>
       ELSE /\ dstFs' = dstFs
            /\ ops' = Append(ops, Op("exists", destino_path))
    /\ status' = [status EXCEPT !.reenviados = @ + 1]
    /\ rmFalhou' = FALSE
    /\ pc' = "download"
    /\ UNCHANGED <<cfg, srcFs, staged, remoteLogs, run, arquivos_dest,
                   arquivos_origem, idx, decisao, k, hist, resumo,
                   shipAttempts, naoListavel,
                   walk, envio>>

(* Variant: the except of the removal block ends the entry. *)
RemoverFalha_ComContinue ==
    /\ pc = "remove"
    /\ status' = [status EXCEPT !.erros_remocao = @ + 1]
    /\ Terminar("RemovalFailed")
    /\ UNCHANGED <<cfg, srcFs, dstFs, staged, remoteLogs, run, arquivos_dest,
                   arquivos_origem, ops, resumo, shipAttempts, naoListavel,
                   walk, envio>>

(* Variant: status.reenviados += 1 stands inside the try, after the
   remove, and is not reached when the removal raises. *)
RemoverFalha_SemReenviado ==
    /\ pc = "remove"
    /\ status' = [status EXCEPT !.erros_remocao = @ + 1]
    /\ rmFalhou' = TRUE
    /\ pc' = "download"
    /\ UNCHANGED <<cfg, srcFs, dstFs, staged, remoteLogs, run, arquivos_dest,
                   arquivos_origem, idx, decisao, k, ops, hist, resumo,
                   shipAttempts, naoListavel, walk, envio>>

(* The removal block raises, at the session or at remove: the except
   counts erros_remocao, and status.reenviados += 1 follows. *)
RemoverFalha ==
    /\ pc = "remove"
    /\ \E ponto \in {"open", "remove"} :
        /\ ponto = "remove" => exists(dstFs, destino_path)
        /\ ops' = IF ponto = "open" THEN ops
                  ELSE ops \o <<Op("exists", destino_path),
                                OpFalha("remove", destino_path)>>
    /\ status' = [status EXCEPT !.erros_remocao = @ + 1,
                                !.reenviados = @ + 1]
    /\ rmFalhou' = TRUE
    /\ pc' = "download"
    /\ UNCHANGED <<cfg, srcFs, dstFs, staged, remoteLogs, run, arquivos_dest,
                   arquivos_origem, idx, decisao, k, hist, resumo,
                   shipAttempts, naoListavel,
                   walk, envio>>

Stage(st, rel, s) == (rel :> s) @@ st

(* Download to cfg.temp_dir (and to cfg.base_dir in Cliente2 when
   keep_extra_local_copy). *)
BaixarOk ==
    /\ pc = "download"
    /\ staged' = Stage(staged, rel_path, srcFs[Cur.caminho].tamanho)
    /\ ops' = IF cfg.keep_extra_local_copy
              THEN ops \o <<Op("get", Cur.caminho), Op("get_extra", Cur.caminho)>>
              ELSE Append(ops, Op("get", Cur.caminho))
    /\ pc' = "upload"
    /\ UNCHANGED <<cfg, srcFs, dstFs, remoteLogs, run, arquivos_dest,
                   arquivos_origem, idx, status, decisao, rmFalhou, k, hist,
                   resumo, shipAttempts, naoListavel,
                   walk, envio>>

PontosDownload ==
    {"mkdir", "get"} \cup
    (IF cfg.keep_extra_local_copy THEN {"get_extra"} ELSE {})

(* Variant: the continue of the download except is missing. *)
BaixarFalha_SemContinue ==
    /\ pc = "download"
    /\ staged' = Stage(staged, rel_path, 0)
    /\ ops' = Append(ops, OpFalha("get", Cur.caminho))
    /\ status' = [status EXCEPT !.erros_download = @ + 1]
    /\ pc' = "upload"
    /\ UNCHANGED <<cfg, srcFs, dstFs, remoteLogs, run, arquivos_dest,
                   arquivos_origem, idx, decisao, rmFalhou, k, hist, resumo,
                   shipAttempts, naoListavel,
                   walk, envio>>

(* Variant: when the download raises and the scratch area holds a copy of
   the path, the upload goes on with that copy. *)
BaixarFalha_UsaCopiaAnterior ==
    /\ pc = "download"
    /\ ops' = Append(ops, OpFalha("get", Cur.caminho))
    /\ status' = [status EXCEPT !.erros_download = @ + 1]
    /\ IF rel_path \in DOMAIN staged
       THEN /\ pc' = "upload"
            /\ UNCHANGED <<hist, idx, decisao, rmFalhou, k>>
       ELSE Terminar("DownloadFailed")
    /\ UNCHANGED <<cfg, srcFs, dstFs, staged, remoteLogs, run, arquivos_dest,
                   arquivos_origem, resumo, shipAttempts, naoListavel, walk,
                   envio>>

(* Variant: the extra copy has a try of its own; when its get raises the
   entry goes on to its upload. *)
BaixarFalha_ExtraTolerada ==
    /\ pc = "download"
    /\ \E ponto \in PontosDownload :
        /\ staged' = CASE ponto = "mkdir" -> staged
                       [] ponto = "get" -> Stage(staged, rel_path, 0)
                       [] OTHER -> Stage(staged, rel_path,
                                         srcFs[Cur.caminho].tamanho)
        /\ ops' = CASE ponto = "mkdir" -> ops
                    [] ponto = "get" -> Append(ops, OpFalha("get", Cur.caminho))
                    [] OTHER -> ops \o <<Op("get", Cur.caminho),
                                         OpFalha("get_extra", Cur.caminho)>>
        /\ IF ponto = "get_extra"
           THEN /\ pc' = "upload"
                /\ UNCHANGED <<status, hist, idx, decisao, rmFalhou, k>>
           ELSE /\ status' = [status EXCEPT !.erros_download = @ + 1]
                /\ Terminar("DownloadFailed")
    /\ UNCHANGED <<cfg, srcFs, dstFs, remoteLogs, run, arquivos_dest,
                   arquivos_origem, resumo, shipAttempts, naoListavel, walk,
                   envio>>

(* The download block raises: erros_download += 1, continue.  A get that
   fails leaves a truncated local file. *)
BaixarFalha ==
    /\ pc = "download"
    /\ \E ponto \in PontosDownload :
        /\ staged' = CASE ponto = "mkdir" -> staged
                       [] ponto = "get" -> Stage(staged, rel_path, 0)
                       [] OTHER -> Stage(staged, rel_path,
                                         srcFs[Cur.caminho].tamanho)
        /\ ops' = CASE ponto = "mkdir" -> ops
                    [] ponto = "get" -> Append(ops, OpFalha("get", Cur.caminho))
                    [] OTHER -> ops \o <<Op("get", Cur.caminho),
                                         OpFalha("get_extra", Cur.caminho)>>
    /\ status' = [status EXCEPT !.erros_download = @ + 1]
    /\ Terminar("DownloadFailed")
    /\ UNCHANGED <<cfg, srcFs, dstFs, remoteLogs, run, arquivos_dest,
                   arquivos_origem, resumo, shipAttempts, naoListavel,
                   walk, envio>>

(* The upload session cannot be opened: erros_upload += 1. *)
AbrirEnvioFalha ==
    /\ pc = "upload"
    /\ status' = [status EXCEPT !.erros_upload = @ + 1]
    /\ Terminar("UploadFailed")
    /\ UNCHANGED <<cfg, srcFs, dstFs, staged, remoteLogs, run, arquivos_dest,
                   arquivos_origem, ops, resumo, shipAttempts, naoListavel,
                   walk, envio>>

(* One iteration of the loop of ensure_remote_dirs on the prefix path. *)
EnsureStep(fs, path) == IF exists(fs, path) THEN fs ELSE Mkdir(fs, path)

RECURSIVE ensure_loop(_, _, _)
ensure_loop(fs, remote_dir, i) ==
    IF i > Len(remote_dir) THEN fs
    ELSE ensure_loop(EnsureStep(fs, SubSeq(remote_dir, 1, i)), remote_dir, i + 1)

ensure_remote_dirs(fs, remote_dir) ==
    IF exists(fs, remote_dir) THEN fs ELSE ensure_loop(fs, remote_dir, 1)

(* Upload session opened; ensure_remote_dirs returns at once when the
   directory exists. *)
EnsureInicio ==
    /\ pc = "upload"
    /\ ops' = Append(ops, Op("open_envio", destino_path))
    /\ IF exists(dstFs, pasta_dest)
       THEN pc' = "put" /\ k' = 0
       ELSE pc' = "ensure" /\ k' = 1
    /\ UNCHANGED <<cfg, srcFs, dstFs, staged, remoteLogs, run, arquivos_dest,
                   arquivos_origem, idx, status, decisao, rmFalhou, hist,
                   resumo, shipAttempts, naoListavel,
                   walk, envio>>

Parte == SubSeq(pasta_dest, 1, k)

EnsurePasso ==
    /\ pc = "ensure"
    /\ k <= Len(pasta_dest)
    /\ dstFs' = EnsureStep(dstFs, Parte)
    /\ ops' = IF exists(dstFs, Parte) THEN ops
              ELSE Append(ops, Op("mkdir", Parte))
    /\ k' = k + 1
    /\ pc' = IF k = Len(pasta_dest) THEN "put" ELSE "ensure"
    /\ UNCHANGED <<cfg, srcFs, staged, remoteLogs, run, arquivos_dest,
                   arquivos_origem, idx, status, decisao, rmFalhou, hist,
                   resumo, shipAttempts, naoListavel,
                   walk, envio>>

(* sftp.mkdir raises inside ensure_remote_dirs: erros_upload += 1. *)
EnsureFalha ==
    /\ pc = "ensure"
    /\ k <= Len(pasta_dest)
    /\ ~exists(dstFs, Parte)
    /\ ops' = Append(ops, OpFalha("mkdir", Parte))
    /\ status' = [status EXCEPT !.erros_upload = @ + 1]
    /\ Terminar("UploadFailed")
    /\ UNCHANGED <<cfg, srcFs, dstFs, staged, remoteLogs, run, arquivos_dest,
                   arquivos_origem, resumo, shipAttempts, naoListavel,
                   walk, envio>>

(* Variant: a published entry is written back into the destination
   snapshot. *)
EnviarOk_AtualizaSnapshot ==
    /\ pc = "put"
    /\ dstFs' = Put(dstFs, destino_path, staged[rel_path])
    /\ ops' = Append(ops, Op("put", destino_path))
    /\ arquivos_dest' = (ChaveDestino :> Dados(Cur)) @@ arquivos_dest
    /\ Terminar("Done")
    /\ UNCHANGED <<cfg, srcFs, staged, remoteLogs, run, arquivos_origem,
                   status, resumo, shipAttempts, naoListavel, walk, envio>>

EnviarOk ==
    /\ pc = "put"
    /\ dstFs' = Put(dstFs, destino_path, staged[rel_path])
    /\ ops' = Append(ops, Op("put", destino_path))
    /\ Terminar("Done")
    /\ UNCHANGED <<cfg, srcFs, staged, remoteLogs, run, arquivos_dest,
                   arquivos_origem, status, resumo, shipAttempts, naoListavel,
                   walk, envio>>

(* Variant: the upload block has no except. *)
EnviarFalha_NaoTratada ==
    /\ pc = "put"
    /\ ops' = Append(ops, OpFalha("put", destino_path))
    /\ pc' = "aborted"
    /\ UNCHANGED <<cfg, srcFs, dstFs, staged, remoteLogs, run, arquivos_dest,
                   arquivos_origem, idx, status, decisao, rmFalhou, k, hist,
                   resumo, shipAttempts, naoListavel,
                   walk, envio>>

(* sftp.put raises: erros_upload += 1; the destination object may be left
   truncated. *)
EnviarFalha ==
    /\ pc = "put"
    /\ \E parcial \in BOOLEAN :
        dstFs' = IF parcial THEN Put(dstFs, destino_path, 0) ELSE dstFs
    /\ ops' = Append(ops, OpFalha("put", destino_path))
    /\ status' = [status EXCEPT !.erros_upload = @ + 1]
    /\ Terminar("UploadFailed")
    /\ UNCHANGED <<cfg, srcFs, staged, remoteLogs, run, arquivos_dest,
                   arquivos_origem, resumo, shipAttempts, naoListavel,
                   walk, envio>>

---------------------------------------------------------------------------
(* main(): summary and upload of the log *)

Resumo ==
    /\ pc = "loop"
    /\ idx > Len(arquivos_origem)
    /\ resumo' = <<status>>
    /\ pc' = "log_ship"
    /\ UNCHANGED <<cfg, srcFs, dstFs, staged, remoteLogs, run, arquivos_dest,
                   arquivos_origem, idx, status, decisao, rmFalhou, k, ops,
                   hist, shipAttempts, naoListavel,
                   walk, envio>>

EnviarLogOk ==
    /\ pc = "log_ship"
    /\ dstFs' = ensure_remote_dirs(dstFs, LogDir)
    /\ remoteLogs' = remoteLogs \cup {run}
    /\ shipAttempts' = shipAttempts + 1
    /\ pc' = "done"
    /\ UNCHANGED <<cfg, srcFs, staged, run, arquivos_dest, arquivos_origem,
                   idx, status, decisao, rmFalhou, k, ops, hist, resumo, naoListavel,
                   walk, envio>>

(* Variant: a log that cannot be sent counts as an upload error. *)
EnviarLogFalha_ContaErro ==
    /\ pc = "log_ship"
    /\ status' = [status EXCEPT !.erros_upload = @ + 1]
    /\ shipAttempts' = shipAttempts + 1
    /\ pc' = "done"
    /\ UNCHANGED <<cfg, srcFs, dstFs, staged, remoteLogs, run, arquivos_dest,
                   arquivos_origem, idx, decisao, rmFalhou, k, ops, hist,
                   resumo, naoListavel, walk, envio>>

(* The log block raises: "Erro ao enviar log", nothing else. *)
EnviarLogFalha ==
    /\ pc = "log_ship"
    /\ \E ponto \in {"open", "mkdir", "chdir", "put"} :
        /\ ponto = "mkdir" => ~exists(dstFs, LogDir)
        /\ dstFs' = IF ponto \in {"chdir", "put"}
                    THEN ensure_remote_dirs(dstFs, LogDir)
                    ELSE dstFs
    /\ shipAttempts' = shipAttempts + 1
    /\ pc' = "done"
    /\ UNCHANGED <<cfg, srcFs, staged, remoteLogs, run, arquivos_dest,
                   arquivos_origem, idx, status, decisao, rmFalhou, k, ops,
                   hist, resumo, naoListavel,
                   walk, envio>>

(* The scheduler starts main() again, the same day, over the same source
   and the destination as the run left it.  Followed here after a run in
   which no download and no upload failed. *)
NovaExecucao ==
    /\ pc = "done"
    /\ run < MaxRuns
    /\ status.erros_download = 0
    /\ status.erros_upload = 0
    /\ run' = run + 1
    /\ pc' = "list_dest"
    /\ arquivos_dest' = <<>>
    /\ arquivos_origem' = <<>>
    /\ idx' = 1
    /\ status' = ZeroStatus
    /\ ops' = <<>>
    /\ hist' = <<>>
    /\ resumo' = <<>>
    /\ shipAttempts' = 0
    /\ UNCHANGED <<cfg, srcFs, dstFs, staged, remoteLogs, decisao, rmFalhou, k,
                   naoListavel,
                   walk, envio>>

Passo ==
    \/ ConexaoDestinoFalha
    \/ ListarDestino
    \/ ConexaoOrigemFalha
    \/ ListarOrigem
    \/ Pular
    \/ IniciarReenvio
    \/ NovoArquivo
    \/ RemoverOk
    \/ RemoverFalha
    \/ BaixarOk
    \/ BaixarFalha
    \/ AbrirEnvioFalha
    \/ EnsureInicio
    \/ EnsurePasso
    \/ EnsureFalha
    \/ EnviarOk
    \/ EnviarFalha
    \/ Resumo
    \/ EnviarLogOk
    \/ EnviarLogFalha

Next == Passo \/ NovaExecucao

Spec == Init /\ [][Next]_vars

(* main() is sequential and every remote call returns or raises: a step
   that is enabled is eventually taken. *)
FairSpec == Spec /\ WF_vars(Passo)

TypeOK ==
    /\ pc \in {"list_dest", "list_src", "loop", "remove", "download",
               "upload", "ensure", "put", "log_ship", "done", "aborted"}
    /\ run \in 1..MaxRuns
    /\ idx \in 1..(Len(arquivos_origem) + 1)
    /\ \A c \in DOMAIN status : status[c] \in Nat

---------------------------------------------------------------------------
(* Vocabulary of the properties *)

(* Key of the destination snapshot for a relative path. *)
ChaveDe(rel) == IF cfg.variant = "cliente1" THEN rel ELSE DestinoDir \o rel

Listed == pc \notin {"list_dest", "list_src", "aborted"}

(* The entry of the loop is past its decision and not yet terminal. *)
EmCurso == pc \in {"remove", "download", "upload", "ensure", "put"}

OpsDe(rel, kinds) == {j \in DOMAIN ops : ops[j].rel = rel /\ ops[j].op \in kinds}

SizeRule(rel, tamanho) ==
    IF ChaveDe(rel) \notin DOMAIN arquivos_dest THEN "Create"
    ELSE IF arquivos_dest[ChaveDe(rel)].tamanho = tamanho THEN "Skip"
    ELSE "Replace"

---------------------------------------------------------------------------
(* C1: every decision taken in the loop is Skip exactly when the relative
   path is a key of the destination snapshot with the size of the source
   record, Create when the key is absent and Replace when it is present
   with another size; the dates of the two records play no part. *)
C1_DecisionBySizeOnly ==
    Listed =>
        /\ \A i \in DOMAIN hist :
               hist[i].decisao = SizeRule(hist[i].rel, arquivos_origem[i].tamanho)
        /\ EmCurso => decisao = SizeRule(rel_path, Cur.tamanho)

(* An entry skipped although the two records carry different dates, in a
   run that decided Create for another entry. *)
C1_Witness ==
    /\ Listed
    /\ \E i \in DOMAIN hist :
           /\ hist[i].decisao = "Skip"
           /\ arquivos_dest[ChaveDe(hist[i].rel)].data # arquivos_origem[i].data
    /\ \E i \in DOMAIN hist : hist[i].decisao = "Create"

(* C2: an entry decided Skip gets no remote call and no staging file, and
   the step that skips it changes no counter but iguais, by one. *)
C2_SkipTouchesNothing ==
    /\ [](\A i \in DOMAIN hist :
              hist[i].decisao = "Skip" =>
                  /\ hist[i].fim = "Skipped"
                  /\ OpsDe(hist[i].rel, {"exists", "remove", "get", "get_extra",
                                         "open_envio", "mkdir", "put"}) = {})
    /\ [][(InLoop /\ SizeRule(rel_path, Cur.tamanho) = "Skip") =>
              /\ status' = [status EXCEPT !.iguais = @ + 1]
              /\ dstFs' = dstFs
              /\ staged' = staged
              /\ ops' = ops
              /\ pc' = "loop" /\ idx' = idx + 1]_vars

(* A skipped entry in a run that also transferred another entry. *)
C2_Witness ==
    /\ pc = "done"
    /\ status.iguais = 1
    /\ \E i \in DOMAIN hist : hist[i].fim = "Skipped"
    /\ \E i \in DOMAIN hist : hist[i].fim = "Done"

(* C3: once both snapshots are taken, whatever fails per entry, the run
   reaches its end with every source entry at a terminal outcome, the
   summary rendered and the log upload step executed exactly once. *)
C3_RunAlwaysCompletes ==
    /\ (pc = "loop") ~>
           (/\ pc = "done"
            /\ Len(hist) = Len(arquivos_origem)
            /\ resumo # <<>>
            /\ shipAttempts = 1)
    /\ [](shipAttempts <= 1)
    /\ [][pc \notin {"list_dest", "list_src"} => pc' # "aborted"]_vars

(* A finished run in which a removal, a download and an upload failed. *)
C3_Witness ==
    /\ pc = "done"
    /\ shipAttempts = 1
    /\ resumo # <<>>
    /\ status.erros_remocao >= 1
    /\ status.erros_download >= 1
    /\ status.erros_upload >= 1
    /\ Len(hist) = Len(arquivos_origem)

(* C4: a download that fails counts one download error, opens no upload
   session and issues no make_directory and no put for the entry, and the
   loop goes on with the next entry. *)
C4_DownloadFailureEndsEntry ==
    /\ [][(pc = "download"
           /\ (pc' = "loop"
               \/ status'.erros_download # status.erros_download)) =>
              /\ status' = [status EXCEPT !.erros_download = @ + 1]
              /\ dstFs' = dstFs
              /\ pc' = "loop"
              /\ idx' = idx + 1
              /\ hist' = Append(hist, Fim(decisao, rmFalhou, "DownloadFailed"))]_vars
    /\ [](\A i \in DOMAIN hist :
              hist[i].fim = "DownloadFailed" =>
                  OpsDe(hist[i].rel, {"open_envio", "mkdir", "put"}) = {})

(* A download failed and the entry after it was then published. *)
C4_Witness ==
    /\ Len(hist) = 2
    /\ hist[1].fim = "DownloadFailed"
    /\ hist[2].fim = "Done"
    /\ status.erros_download = 1

(* C5: a removal that fails, at the session or at the remove, counts one
   removal error and the entry goes on to its download; when the download
   succeeds the upload is attempted as for any other entry. *)
C5_RemovalFailureGoesOn ==
    /\ [][(pc = "remove"
           /\ status'.erros_remocao # status.erros_remocao) =>
              /\ status'.erros_remocao = status.erros_remocao + 1
              /\ status'.erros_download = status.erros_download
              /\ status'.erros_upload = status.erros_upload
              /\ pc' = "download"
              /\ idx' = idx
              /\ hist' = hist]_vars
    /\ [][(pc = "remove" /\ pc' # "remove") => pc' = "download"]_vars
    /\ [](\A i \in DOMAIN hist :
              hist[i].rmFalhou =>
                  /\ hist[i].decisao = "Replace"
                  /\ hist[i].fim \in {"Done", "DownloadFailed", "UploadFailed"}
                  /\ hist[i].fim = "Done" =>
                         /\ OpsDe(hist[i].rel, {"get"}) # {}
                         /\ OpsDe(hist[i].rel, {"put"}) # {})

(* The removal of an entry failed and the entry was published all the same. *)
C5_Witness ==
    /\ status.erros_remocao = 1
    /\ \E i \in DOMAIN hist :
           /\ hist[i].rmFalhou
           /\ hist[i].fim = "Done"
           /\ OpsDe(hist[i].rel, {"put"}) # {}

ReplaceDone == {i \in DOMAIN hist : hist[i].decisao = "Replace"}

CreateDone == {i \in DOMAIN hist : hist[i].decisao = "Create"}

Transfer == {"get", "get_extra", "open_envio", "mkdir", "put"}

(* The removal of a Replace entry was attempted: its session failed to
   open, or exists was called. *)
RemovalAttempted(rel, rm) == rm \/ OpsDe(rel, {"exists"}) # {}

(* C6: for a Replace entry the removal attempt (exists, then remove when
   present) comes before its download and its put, never after; when the
   removal, the download and the upload succeed the destination holds an
   object of the source record's size at the path, and each Replace entry
   counts one in reenviados. *)
C6_RemoveBeforeRepublish ==
    Listed =>
        /\ \A i \in DOMAIN ops, j \in DOMAIN ops :
               (/\ ops[i].rel = ops[j].rel
                /\ ops[i].op \in {"exists", "remove"}
                /\ ops[j].op \in Transfer) => i < j
        /\ \A j \in DOMAIN ops :
               ops[j].op = "remove" =>
                   /\ j > 1
                   /\ ops[j - 1] = [ops[j] EXCEPT !.op = "exists", !.ok = TRUE]
                   /\ ops[j].path = DestinoDir \o ops[j].rel
        /\ \A i \in ReplaceDone :
               /\ RemovalAttempted(hist[i].rel, hist[i].rmFalhou)
               /\ (~hist[i].rmFalhou /\ hist[i].fim = "Done") =>
                      /\ exists(dstFs, DestinoDir \o hist[i].rel)
                      /\ ~dstFs[DestinoDir \o hist[i].rel].dir
                      /\ dstFs[DestinoDir \o hist[i].rel].tamanho
                             = arquivos_origem[i].tamanho
        /\ (decisao = "Replace" /\ pc \in {"download", "upload", "ensure", "put"})
               => RemovalAttempted(rel_path, rmFalhou)
        /\ status.reenviados =
               Cardinality(ReplaceDone)
               + (IF decisao = "Replace" /\ pc # "remove" THEN 1 ELSE 0)

(* An object of another size stood at the path when the run started; it
   was removed and the entry published again. *)
C6_Witness ==
    /\ pc = "done"
    /\ \E i \in ReplaceDone :
           /\ hist[i].fim = "Done"
           /\ ~hist[i].rmFalhou
           /\ OpsDe(hist[i].rel, {"remove"}) # {}
           /\ dstFs[DestinoDir \o hist[i].rel].tamanho = 2
    /\ status.reenviados = 1

(* C7: for a Create entry whose download and upload returned, the publish
   root holds an object of the source record's size at the relative path,
   every directory above it exists, and each Create entry counts one in
   novos. *)
C7_CreatePublishes ==
    Listed =>
        /\ \A i \in CreateDone :
               hist[i].fim = "Done" =>
                   /\ exists(dstFs, DestinoDir \o hist[i].rel)
                   /\ ~dstFs[DestinoDir \o hist[i].rel].dir
                   /\ dstFs[DestinoDir \o hist[i].rel].tamanho
                          = arquivos_origem[i].tamanho
                   /\ \A d \in Prefixes(dirname(DestinoDir \o hist[i].rel)) :
                          exists(dstFs, d) /\ dstFs[d].dir
        /\ status.novos =
               Cardinality(CreateDone) + (IF decisao = "Create" THEN 1 ELSE 0)

(* A new file two directories deep was published after both directories
   were created. *)
C7_Witness ==
    /\ pc = "done"
    /\ \E i \in CreateDone :
           /\ hist[i].fim = "Done"
           /\ Len(hist[i].rel) = 3
           /\ Cardinality(OpsDe(hist[i].rel, {"mkdir"})) = 2
    /\ status.novos = 1

(* C8: at the head of the loop the five outcome counters add up to the
   number of entries processed, each entry having counted in exactly one
   of them (erros_remocao is the only extra counter of an entry). *)
C8_OneOutcomeCounterPerEntry ==
    pc = "loop" =>
        status.novos + status.iguais + status.reenviados
            + status.erros_download + status.erros_upload = Len(hist)

(* C9: at the end of a run novos + reenviados is the number of entries
   that were published. *)
C9_CountsOnlyPublished ==
    pc = "done" =>
        status.novos + status.reenviados
            = Cardinality({i \in DOMAIN hist : hist[i].fim = "Done"})

(* C10: a run that follows a run in which every transfer succeeded, over
   the same source and with both listings complete, decides Skip for
   every entry and issues no remote call. *)
C10_SecondRunSkipsAll ==
    (run >= 2 /\ Listed /\ naoListavel = {}) =>
        /\ \A i \in DOMAIN hist : hist[i].decisao = "Skip"
        /\ decisao \in {"none", "Skip"}
        /\ ops = <<>>

---------------------------------------------------------------------------
(* listar_arquivos_sftp_recursivo called on its own: a tree, the
   directories the server refuses to list, a filter; then the call. *)

WalkRoot == <<"r">>

WalkFiles == {<<"x">>, <<"a", "y">>, <<"a", "b", "z">>, <<"b", "y">>}

WalkDirs == {<<"a">>, <<"a", "b">>, <<"b">>}

WalkDates == {Old, data_limite, Today}

WalkOpts == {Absent} \cup {Arq(1, m) : m \in WalkDates}

WalkPresent(choice) == {r \in WalkFiles : choice[r].present}

(* The directories that hold a chosen file. *)
WalkDirsOf(choice) ==
    {d \in WalkDirs : \E r \in WalkPresent(choice) :
                          IsPrefix(d, r) /\ Len(d) < Len(r)}

WalkTree(choice, dm) ==
    LET files == WalkPresent(choice)
        dirs == WalkDirsOf(choice)
    IN  [p \in {WalkRoot} \cup {WalkRoot \o q : q \in files \cup dirs} |->
            IF relpath(p, WalkRoot) \in files /\ Len(p) > Len(WalkRoot)
            THEN FileNode(choice[relpath(p, WalkRoot)].tamanho,
                          choice[relpath(p, WalkRoot)].mtime)
            ELSE IF p = WalkRoot THEN DirNode(Today)
            ELSE DirNode(dm[relpath(p, WalkRoot)])]

Quiet ==
    /\ cfg = <<>>
    /\ srcFs = <<>>
    /\ staged = <<>>
    /\ remoteLogs = {}
    /\ run = 1
    /\ pc = "idle"
    /\ arquivos_dest = <<>>
    /\ arquivos_origem = <<>>
    /\ idx = 1
    /\ status = ZeroStatus
    /\ decisao = "none"
    /\ rmFalhou = FALSE
    /\ k = 0
    /\ ops = <<>>
    /\ hist = <<>>
    /\ resumo = <<>>
    /\ shipAttempts = 0
    /\ naoListavel = {}

main_vars ==
    <<cfg, srcFs, staged, remoteLogs, run, pc, arquivos_dest,
      arquivos_origem, idx, status, decisao, rmFalhou, k, ops, hist, resumo,
      shipAttempts, naoListavel>>

WalkInit ==
    \E fn \in {"listar1", "listar2"}, choice \in [WalkFiles -> WalkOpts],
       dm \in [WalkDirs -> {Old, Today}],
       bad \in {{}} \cup {{WalkRoot \o d} : d \in WalkDirs},
       filtro \in {NoFilter, data_limite, Today} :
        /\ Cardinality(WalkPresent(choice)) <= MaxFiles
        /\ \A d \in WalkDirs \ WalkDirsOf(choice) : dm[d] = Today
        /\ bad \subseteq {WalkRoot \o d : d \in WalkDirsOf(choice)}
        /\ walk = [fn |-> fn, fs |-> WalkTree(choice, dm), bad |-> bad,
                   filtro |-> filtro, pc |-> "call", ret |-> <<>>]
        /\ envio = <<>>
        /\ dstFs = <<>>
        /\ Quiet

(* Cliente1: listar_arquivos_sftp_recursivo(sftp, remote_dir, filtro_data=..) *)
Listar1Retorna ==
    /\ walk # <<>>
    /\ walk.pc = "call"
    /\ walk.fn = "listar1"
    /\ walk' = [walk EXCEPT
                   !.ret = listar1(walk.fs, walk.bad, WalkRoot, walk.filtro),
                   !.pc = "returned"]
    /\ UNCHANGED <<main_vars, dstFs, envio>>

(* Cliente2: listar_arquivos_sftp_recursivo(sftp, remote_dir,
   filtro_data_min=..), nivel at its default 0 *)
Listar2Retorna ==
    /\ walk # <<>>
    /\ walk.pc = "call"
    /\ walk.fn = "listar2"
    /\ walk' = [walk EXCEPT
                   !.ret = listar2(walk.fs, walk.bad, WalkRoot, 0, walk.filtro),
                   !.pc = "returned"]
    /\ UNCHANGED <<main_vars, dstFs, envio>>

WalkNext == Listar1Retorna \/ Listar2Retorna

WalkSpec == WalkInit /\ [][WalkNext]_vars

(* Files of the tree, and the directory right below the root above one. *)
WalkArquivos == {p \in DOMAIN walk.fs : ~walk.fs[p].dir}

Level0(p) == SubSeq(p, 1, Len(WalkRoot) + 1)

(* What a walk without listing errors is to return. *)
Esperado ==
    {p \in WalkArquivos :
        IF walk.filtro = NoFilter THEN TRUE
        ELSE IF walk.fn = "listar1" THEN walk.fs[p].mtime = walk.filtro
        ELSE /\ walk.fs[p].mtime >= walk.filtro
             /\ Len(p) > Len(WalkRoot) + 1 =>
                    walk.fs[Level0(p)].mtime >= walk.filtro}

(* The returned dict has one record per key, with the attributes of the
   file. *)
RetornoFiel ==
    /\ Cardinality(Keys(walk.ret)) = Len(walk.ret)
    /\ \A i \in DOMAIN walk.ret :
           walk.ret[i] = Entry(walk.ret[i].caminho, walk.fs[walk.ret[i].caminho])

Returned(fn) == walk # <<>> /\ walk.pc = "returned" /\ walk.fn = fn

---------------------------------------------------------------------------
(* The upload block of main() on its own: one run, or two runs at the
   same time, each publishing its entries into a directory of the
   destination.  sftp.exists and sftp.mkdir are two separate requests. *)

Callers == {1, 2}

EnvioDirs ==
    {DestinoDir, DestinoDir \o <<"a">>, DestinoDir \o <<"a", "b">>}

(* The destination trees: the first n directories of /dst/uploads/a/b. *)
EnvioTree(n) ==
    [p \in {SubSeq(DestinoDir \o <<"a", "b">>, 1, i) : i \in 1..n} |->
        DirNode(Old)]

Caller(dir, n) ==
    [dir |-> dir, n |-> n, c |-> 1, pc |-> "inicio", k |-> 0, ops |-> <<>>,
     erros_upload |-> 0]

EnvioInit ==
    \E who \in (SUBSET Callers) \ {{}}, n0 \in 0..4,
       dirs \in [Callers -> EnvioDirs], ns \in [Callers -> 1..MaxChamadas] :
        /\ envio = [fs0 |-> EnvioTree(n0),
                    r |-> [p \in who |-> Caller(dirs[p], ns[p])]]
        /\ dstFs = EnvioTree(n0)
        /\ walk = <<>>
        /\ Quiet

(* The file a caller publishes. *)
EnvioArquivo(p) == envio.r[p].dir \o <<IF p = 1 THEN "x" ELSE "y">>

EnvioParte(p) == SubSeq(envio.r[p].dir, 1, envio.r[p].k)

(* The entry of the caller is over: the next one, or the end of its loop. *)
Avancar(rec) ==
    [rec EXCEPT !.c = @ + 1,
                !.pc = IF rec.c + 1 > rec.n THEN "fim" ELSE "inicio",
                !.k = 0]

(* After the prefix k: the next prefix, or the put. *)
ProximaParte(rec) ==
    IF rec.k = Len(rec.dir) THEN [rec EXCEPT !.pc = "put", !.k = 0]
    ELSE [rec EXCEPT !.pc = "exists", !.k = @ + 1]

EnvioOp(o, path, rec, ok) == [op |-> o, path |-> path, c |-> rec.c, ok |-> ok]

(* ensure_remote_dirs: if sftp.exists(remote_dir): return *)
EnvioInicio(p) ==
    /\ envio.r[p].pc = "inicio"
    /\ envio' = [envio EXCEPT !.r[p] =
                    IF exists(dstFs, @.dir)
                    THEN [@ EXCEPT !.pc = "put"]
                    ELSE [@ EXCEPT !.pc = "exists", !.k = 1]]
    /\ UNCHANGED <<main_vars, dstFs, walk>>

(* Variant: every prefix is created without asking whether it exists. *)
EnvioExists_SemTeste(p) ==
    /\ envio.r[p].pc = "exists"
    /\ envio' = [envio EXCEPT !.r[p].pc = "mkdir"]
    /\ UNCHANGED <<main_vars, dstFs, walk>>

(* ensure_remote_dirs: if not sftp.exists(path) *)
EnvioExists(p) ==
    /\ envio.r[p].pc = "exists"
    /\ envio' = [envio EXCEPT !.r[p] =
                    IF exists(dstFs, EnvioParte(p))
                    THEN ProximaParte(@)
                    ELSE [@ EXCEPT !.pc = "mkdir"]]
    /\ UNCHANGED <<main_vars, dstFs, walk>>

(* ensure_remote_dirs: sftp.mkdir(path) creates the directory *)
EnvioMkdirOk(p) ==
    /\ envio.r[p].pc = "mkdir"
    /\ ~exists(dstFs, EnvioParte(p))
    /\ dstFs' = Mkdir(dstFs, EnvioParte(p))
    /\ envio' = [envio EXCEPT !.r[p] =
                    ProximaParte([@ EXCEPT !.ops =
                        Append(@, EnvioOp("mkdir", EnvioParte(p),
                                          envio.r[p], TRUE))])]
    /\ UNCHANGED <<main_vars, walk>>

(* Variant: a mkdir that fails on an existing directory is passed over. *)
EnvioMkdirFalha_Tolerada(p) ==
    /\ envio.r[p].pc = "mkdir"
    /\ exists(dstFs, EnvioParte(p))
    /\ envio' = [envio EXCEPT !.r[p] =
                    ProximaParte([@ EXCEPT !.ops =
                        Append(@, EnvioOp("mkdir", EnvioParte(p),
                                          envio.r[p], FALSE))])]
    /\ UNCHANGED <<main_vars, dstFs, walk>>

(* sftp.mkdir raises on a path that exists; nothing in ensure_remote_dirs
   catches it: the except of the upload block counts erros_upload. *)
EnvioMkdirFalha(p) ==
    /\ envio.r[p].pc = "mkdir"
    /\ exists(dstFs, EnvioParte(p))
    /\ envio' = [envio EXCEPT !.r[p] =
                    Avancar([@ EXCEPT
                        !.ops = Append(@, EnvioOp("mkdir", EnvioParte(p),
                                                  envio.r[p], FALSE)),
                        !.erros_upload = @ + 1])]
    /\ UNCHANGED <<main_vars, dstFs, walk>>

(* sftp_envio.put(local_temp, destino_path) *)
EnvioPut(p) ==
    /\ envio.r[p].pc = "put"
    /\ dstFs' = Put(dstFs, EnvioArquivo(p), 1)
    /\ envio' = [envio EXCEPT !.r[p] =
                    Avancar([@ EXCEPT !.ops =
                        Append(@, EnvioOp("put", EnvioArquivo(p),
                                          envio.r[p], TRUE))])]
    /\ UNCHANGED <<main_vars, walk>>

EnvioNext ==
    \/ \E p \in DOMAIN envio.r : EnvioInicio(p)
    \/ \E p \in DOMAIN envio.r : EnvioExists(p)
    \/ \E p \in DOMAIN envio.r : EnvioMkdirOk(p)
    \/ \E p \in DOMAIN envio.r : EnvioMkdirFalha(p)
    \/ \E p \in DOMAIN envio.r : EnvioPut(p)

EnvioSpec == EnvioInit /\ [][EnvioNext]_vars

(* C11: a destination root that cannot be enumerated ends the run before
   any decision: no counter is incremented, no remote call is issued and
   no entry is decided Create against an empty destination. *)
C11_UnlistableRootAborts ==
    DestinoDir \in naoListavel =>
        /\ status = ZeroStatus
        /\ ops = <<>>
        /\ hist = <<>>
        /\ decisao = "none"

(* C12: when the listing of a directory below the root raises, the walk
   returns all the same, and its snapshot is the snapshot of the walk
   without errors less the files under that directory: the files of the
   sibling directories and of the directories above are all there. *)
C12_SubtreeErrorIsLocal ==
    (walk # <<>> /\ walk.pc = "returned" /\ walk.bad # {}) =>
        /\ Keys(walk.ret) =
               {p \in Esperado : \A d \in walk.bad : ~IsPrefix(d, p)}
        /\ RetornoFiel

(* The listing of r/a raised; the snapshot holds the file of the sibling
   directory r/b and the file of the root, not the file under r/a. *)
C12_Witness ==
    /\ walk # <<>>
    /\ walk.pc = "returned"
    /\ walk.bad = {WalkRoot \o <<"a">>}
    /\ WalkRoot \o <<"a", "y">> \in Esperado
    /\ Keys(walk.ret) = {WalkRoot \o <<"b", "y">>, WalkRoot \o <<"x">>}

(* C13: without listing errors the window walker returns exactly the files
   dated on or after the threshold that do not lie under a directory right
   below the root dated before the threshold; a directory right below the
   root dated on or after the threshold, and any deeper directory whatever
   its date, is descended into. *)
C13_WindowPrunesLevel0Only ==
    (Returned("listar2") /\ walk.bad = {} /\ walk.filtro # NoFilter) =>
        /\ Keys(walk.ret) = Esperado
        /\ RetornoFiel

(* A recent file under an old directory right below the root is left out,
   a recent file under an old directory one level deeper is returned. *)
C13_Witness ==
    /\ Returned("listar2")
    /\ walk.bad = {}
    /\ walk.filtro = data_limite
    /\ {WalkRoot \o <<"b", "y">>, WalkRoot \o <<"a", "b", "z">>}
           \subseteq DOMAIN walk.fs
    /\ walk.fs[WalkRoot \o <<"b">>].mtime = Old
    /\ walk.fs[WalkRoot \o <<"b", "y">>].mtime = Today
    /\ walk.fs[WalkRoot \o <<"a">>].mtime = Today
    /\ walk.fs[WalkRoot \o <<"a", "b">>].mtime = Old
    /\ Keys(walk.ret) = {WalkRoot \o <<"a", "b", "z">>}

(* C14: without listing errors the exact-day walker returns exactly the
   files, at any depth, dated the filter date, whatever the dates of the
   directories above them; without a filter it returns every file. *)
C14_ExactDayAllDepths ==
    (Returned("listar1") /\ walk.bad = {}) =>
        /\ walk.filtro # NoFilter =>
               Keys(walk.ret) =
                   {p \in WalkArquivos : walk.fs[p].mtime = walk.filtro}
        /\ walk.filtro = NoFilter => Keys(walk.ret) = WalkArquivos
        /\ RetornoFiel

(* A file of today two old directories deep is returned, a file of the
   root dated another day is not. *)
C14_Witness ==
    /\ Returned("listar1")
    /\ walk.bad = {}
    /\ walk.filtro = Today
    /\ WalkRoot \o <<"a", "b", "z">> \in DOMAIN walk.fs
    /\ walk.fs[WalkRoot \o <<"a">>].mtime = Old
    /\ walk.fs[WalkRoot \o <<"a", "b">>].mtime = Old
    /\ WalkRoot \o <<"x">> \in WalkArquivos
    /\ Keys(walk.ret) = {WalkRoot \o <<"a", "b", "z">>}

(* A file of today at the relative path under a destination root. *)
HojeEm(root, rel) ==
    /\ exists(dstFs, root \o rel)
    /\ ~dstFs[root \o rel].dir
    /\ dstFs[root \o rel].mtime = data_hoje

(* C15: in the two-root variant, when the listing finds a relative path
   under the uploads root and under the processed root, the merged
   snapshot holds the record of the processed root; and the size of the
   processed record decides Skip or Replace for the source entry. *)
C15_ProcessedRecordWins ==
    /\ [][(cfg # <<>> /\ cfg.variant = "cliente1" /\ pc = "list_dest"
           /\ pc' = "list_src" /\ naoListavel = {}) =>
              \A rel \in RelFiles :
                  HojeEm(ProcessadosDir, rel) =>
                      /\ rel \in DOMAIN arquivos_dest'
                      /\ arquivos_dest'[rel] =
                             Dados(Entry(ProcessadosDir \o rel,
                                         dstFs[ProcessadosDir \o rel]))]_vars
    /\ []((cfg # <<>> /\ cfg.variant = "cliente1" /\ Listed) =>
              \A i \in DOMAIN hist :
                  HojeEm(ProcessadosDir, hist[i].rel) =>
                      hist[i].decisao =
                          (IF dstFs[ProcessadosDir \o hist[i].rel].tamanho
                                  = arquivos_origem[i].tamanho
                           THEN "Skip" ELSE "Replace"))

(* The uploads root holds the file with the size of the source, the
   processed root holds it with another size: the entry is decided
   Replace. *)
C15_Witness ==
    /\ cfg.variant = "cliente1"
    /\ pc = "remove"
    /\ decisao = "Replace"
    /\ HojeEm(DestinoDir, rel_path)
    /\ HojeEm(ProcessadosDir, rel_path)
    /\ dstFs[DestinoDir \o rel_path].tamanho = Cur.tamanho
    /\ dstFs[ProcessadosDir \o rel_path].tamanho # Cur.tamanho

(* The objects of a destination tree under a root. *)
Sob(fs, root) == [p \in {q \in DOMAIN fs : IsPrefix(root, q)} |-> fs[p]]

(* C16: every exists, remove, make_directory and put issued for an entry
   names a path strictly under the uploads root, and no step of a run
   changes, adds or deletes an object under the processed root, also when
   the entry was decided Replace on a record of the processed root alone. *)
C16_PublishRootOnly ==
    /\ [](\A j \in DOMAIN ops :
              ops[j].op \in {"exists", "remove", "mkdir", "put", "open_envio"} =>
                  /\ IsPrefix(DestinoDir, ops[j].path)
                  /\ Len(ops[j].path) > Len(DestinoDir))
    /\ [][Sob(dstFs', ProcessadosDir) = Sob(dstFs, ProcessadosDir)]_vars

(* An entry decided Replace on a record that only the processed root
   holds: nothing to remove under uploads, the file is put under uploads
   and the processed copy stays. *)
C16_Witness ==
    /\ pc = "done"
    /\ cfg.variant = "cliente1"
    /\ \E i \in ReplaceDone :
           /\ hist[i].fim = "Done"
           /\ OpsDe(hist[i].rel, {"remove"}) = {}
           /\ OpsDe(hist[i].rel, {"exists"}) # {}
           /\ \E j \in OpsDe(hist[i].rel, {"put"}) :
                  ops[j].path = DestinoDir \o hist[i].rel
           /\ exists(dstFs, ProcessadosDir \o hist[i].rel)
           /\ dstFs[ProcessadosDir \o hist[i].rel].tamanho
                  # dstFs[DestinoDir \o hist[i].rel].tamanho

(* C19: the log upload step starts with every entry at its terminal
   outcome and the summary rendered; whether it succeeds or fails, at the
   session, the directory creation, the chdir or the put, it ends the run
   without raising and leaves the six counters as the loop left them. *)
C19_LogShipKeepsCounters ==
    /\ []((pc = "log_ship" \/ shipAttempts >= 1) =>
              /\ Len(hist) = Len(arquivos_origem)
              /\ idx = Len(arquivos_origem) + 1
              /\ resumo = <<status>>)
    /\ [][pc = "log_ship" =>
              /\ status' = status
              /\ resumo' = resumo
              /\ hist' = hist
              /\ shipAttempts' = shipAttempts + 1
              /\ pc' = "done"]_vars

(* A run with a publication and an upload error whose log was not sent,
   the log directory having been created. *)
C19_Witness ==
    /\ pc = "done"
    /\ run \notin remoteLogs
    /\ exists(dstFs, LogDir)
    /\ status.novos = 2
    /\ status.erros_upload = 1
    /\ resumo = <<status>>

(* The decisions of the entries processed so far, in order. *)
Decisoes == [i \in DOMAIN hist |-> hist[i].decisao]

(* The decisions the two snapshots alone call for, for the first n source
   entries. *)
DecisoesDe(origem, n) ==
    [i \in 1..n |-> SizeRule(relpath(origem[i].caminho, OrigemDir),
                             origem[i].tamanho)]

(* C20: from the start of the loop to the end of the run the two
   snapshots stay as they were taken, whatever is removed, transferred or
   fails, and the decisions taken so far are the ones the two snapshots
   alone call for: runs with the same snapshots take the same decisions
   whatever the outcomes of their remote calls. *)
C20_DecisionsFromSnapshotsOnly ==
    /\ [][(Listed /\ pc' # "list_dest") =>
              /\ arquivos_dest' = arquivos_dest
              /\ arquivos_origem' = arquivos_origem]_vars
    /\ [](Listed => Decisoes = DecisoesDe(arquivos_origem, Len(hist)))

(* After an entry whose removal failed and whose download failed, the
   next entry is decided Create and published. *)
C20_Witness ==
    /\ Len(hist) = 2
    /\ hist[1].decisao = "Replace"
    /\ hist[1].rmFalhou
    /\ hist[1].fim = "DownloadFailed"
    /\ hist[2].decisao = "Create"
    /\ hist[2].fim = "Done"

(* The make_directory requests of a caller in its call c, in order. *)
MkdirsDe(rec, c) ==
    LET doCall(o) == o.op = "mkdir" /\ o.c = c
        sel == SelectSeq(rec.ops, doCall)
    IN  [i \in DOMAIN sel |-> sel[i].path]

(* The prefixes of a directory path the tree lacked at the start, parent
   before child. *)
Faltam(dir) ==
    LET missing(q) == q \notin DOMAIN envio.fs0
    IN  SelectSeq([i \in 1..Len(dir) |-> SubSeq(dir, 1, i)], missing)

IsSeqPrefix(a, b) == Len(a) <= Len(b) /\ SubSeq(b, 1, Len(a)) = a

Dirs(fs) == {q \in DOMAIN fs : fs[q].dir}

Solo == envio # <<>> /\ Cardinality(DOMAIN envio.r) = 1

(* C17: with a single caller, the first call of ensure_remote_dirs on a
   directory path requests make_directory for exactly the prefixes the
   tree lacked, parent before child, and never for one that exists; a
   later call on the same path requests none, changes nothing in the tree
   and raises nothing. *)
C17_EnsureDirsIdempotent ==
    /\ [](Solo =>
              \A p \in DOMAIN envio.r :
                  LET rec == envio.r[p] IN
                  /\ rec.erros_upload = 0
                  /\ \A i \in DOMAIN rec.ops :
                         rec.ops[i].op = "mkdir" =>
                             rec.ops[i].ok /\ rec.ops[i].c = 1
                  /\ IsSeqPrefix(MkdirsDe(rec, 1), Faltam(rec.dir))
                  /\ (rec.c >= 2 \/ rec.pc = "put") =>
                         /\ MkdirsDe(rec, 1) = Faltam(rec.dir)
                         /\ Dirs(dstFs) = Dirs(envio.fs0) \cup Prefixes(rec.dir))
    /\ [][(Solo /\ \E p \in DOMAIN envio.r :
                       /\ envio.r[p].c >= 2
                       /\ envio.r[p].pc \in {"inicio", "exists", "mkdir"})
              => dstFs' = dstFs]_vars

(* Three directories were missing: the first call created them in order,
   the second call found the path and the second entry was published. *)
C17_Witness ==
    /\ Solo
    /\ \E p \in DOMAIN envio.r :
           /\ envio.r[p].pc = "fim"
           /\ envio.r[p].c = 3
           /\ MkdirsDe(envio.r[p], 1) =
                  <<DestinoDir, DestinoDir \o <<"a">>, DestinoDir \o <<"a", "b">>>>
           /\ MkdirsDe(envio.r[p], 2) = <<>>
           /\ Len(envio.r[p].ops) = 5

(* The entries of a caller that ended with a put, and with a failed
   make_directory. *)
Publicadas(rec) == {rec.ops[i].c : i \in {j \in DOMAIN rec.ops : rec.ops[j].op = "put"}}

Recusadas(rec) == {rec.ops[i].c : i \in {j \in DOMAIN rec.ops : ~rec.ops[j].ok}}

(* C18: with two callers, a make_directory issued for a prefix that the
   other caller created after the exists request fails; the failure leaves
   ensure_remote_dirs, the put of that entry is not issued and the entry
   counts one upload error, the directory being there. *)
C18_ConcurrentMkdirFails ==
    /\ [][\A p \in DOMAIN envio.r :
              (/\ envio.r[p].pc = "mkdir"
               /\ exists(dstFs, EnvioParte(p))
               /\ envio'.r[p] # envio.r[p]) =>
                  /\ envio'.r[p].erros_upload = envio.r[p].erros_upload + 1
                  /\ envio'.r[p].c = envio.r[p].c + 1
                  /\ envio'.r[p].pc \in {"inicio", "fim"}
                  /\ envio'.r[p].ops =
                         Append(envio.r[p].ops,
                                EnvioOp("mkdir", EnvioParte(p), envio.r[p], FALSE))
                  /\ dstFs' = dstFs]_vars
    /\ [](envio # <<>> =>
              \A p \in DOMAIN envio.r :
                  LET rec == envio.r[p] IN
                  /\ Publicadas(rec) \cap Recusadas(rec) = {}
                  /\ Publicadas(rec) \cup Recusadas(rec) = 1..(rec.c - 1)
                  /\ rec.erros_upload = Cardinality(Recusadas(rec))
                  /\ \A i \in DOMAIN rec.ops :
                         ~rec.ops[i].ok =>
                             /\ exists(dstFs, rec.ops[i].path)
                             /\ dstFs[rec.ops[i].path].dir)

(* Two runs published into the same missing directory: both requested
   its make_directory, one created it and published, the other got the
   failure, published nothing and counted an upload error. *)
C18_Witness ==
    /\ envio # <<>>
    /\ DOMAIN envio.r = Callers
    /\ \E p \in Callers, q \in Callers :
           /\ p # q
           /\ envio.r[p].pc = "fim" /\ envio.r[q].pc = "fim"
           /\ envio.r[p].n = 1 /\ envio.r[q].n = 1
           /\ envio.r[p].dir = envio.r[q].dir
           /\ envio.r[p].erros_upload = 1
           /\ Publicadas(envio.r[p]) = {}
           /\ Publicadas(envio.r[q]) = {1}
           /\ \E i \in DOMAIN envio.r[p].ops, j \in DOMAIN envio.r[q].ops :
                  /\ ~envio.r[p].ops[i].ok
                  /\ envio.r[q].ops[j].ok
                  /\ envio.r[q].ops[j].op = "mkdir"
                  /\ envio.r[q].ops[j].path = envio.r[p].ops[i].path
                  /\ envio.r[p].ops[i].path = envio.r[p].dir
           /\ exists(dstFs, envio.r[p].dir)
           /\ ~exists(dstFs, EnvioArquivo(p))

Contadores ==
    {"novos", "iguais", "reenviados", "erros_download", "erros_upload",
     "erros_remocao"}

(* C21: between two entries, novos + iguais + reenviados is the number of
   entries processed, erros_download + erros_upload is at most novos +
   reenviados and erros_remocao is at most reenviados, whatever failed;
   and within a run no counter ever decreases. *)
C21_CounterArithmetic ==
    /\ []((pc \in {"loop", "log_ship", "done"}) =>
              /\ status.novos + status.iguais + status.reenviados = Len(hist)
              /\ Len(hist) = idx - 1
              /\ status.erros_download + status.erros_upload
                     <= status.novos + status.reenviados
              /\ status.erros_remocao <= status.reenviados)
    /\ [][pc' # "list_dest" =>
              \A c \in Contadores : status'[c] >= status[c]]_vars

(* Two entries processed: one replaced after a failed removal and failed
   at its download, one new and failed at its upload. *)
C21_Witness ==
    /\ pc = "loop"
    /\ Len(hist) = 2
    /\ status = [novos |-> 1, iguais |-> 0, reenviados |-> 1,
                 erros_download |-> 1, erros_upload |-> 1,
                 erros_remocao |-> 1]

(* The Replace entries whose stale object was removed and whose download
   or upload then failed. *)
RemovidasSemReenvio ==
    {i \in ReplaceDone :
        /\ ~hist[i].rmFalhou
        /\ OpsDe(hist[i].rel, {"remove"}) # {}
        /\ hist[i].fim \in {"DownloadFailed", "UploadFailed"}}

FalhasDe(f) == {i \in DOMAIN hist : hist[i].fim = f}

(* C22 as stated: when the removal of a Replace entry succeeded and its
   download or its upload failed, no object stands at the destination
   path from then to the end of the run. *)
C22_NoObjectAfterFailedReplace ==
    Listed =>
        \A i \in RemovidasSemReenvio : ~exists(dstFs, DestinoDir \o hist[i].rel)

(* C22 amended: the removal comes before the download and is not undone:
   when it succeeded and the download or the upload then failed, the
   object that stood at the path is gone to the end of the run: the path
   holds nothing, or, when it was the put that failed, at most the
   truncated object that put left; the entry counts in reenviados and in
   the error counter of its failure. *)
C22_StaleObjectGoneAfterFailedReplace ==
    Listed =>
        /\ \A i \in RemovidasSemReenvio :
               LET path == DestinoDir \o hist[i].rel IN
               /\ \A r \in OpsDe(hist[i].rel, {"remove"}),
                     g \in OpsDe(hist[i].rel, {"get"}) : r < g
               /\ exists(dstFs, path) =>
                      /\ hist[i].fim = "UploadFailed"
                      /\ OpsDe(hist[i].rel, {"put"}) # {}
                      /\ dstFs[path] = FileNode(0, Today)
               /\ hist[i].fim = "DownloadFailed" => ~exists(dstFs, path)
        /\ pc \in {"loop", "log_ship", "done"} =>
               /\ status.reenviados = Cardinality(ReplaceDone)
               /\ status.erros_download = Cardinality(FalhasDe("DownloadFailed"))
               /\ status.erros_upload = Cardinality(FalhasDe("UploadFailed"))

(* The run is over: the object of the entry was removed, its download
   failed, the path is empty, and the entry counts in reenviados and in
   erros_download. *)
C22_Witness ==
    /\ pc = "done"
    /\ \E i \in RemovidasSemReenvio :
           /\ hist[i].fim = "DownloadFailed"
           /\ ~exists(dstFs, DestinoDir \o hist[i].rel)
    /\ status.reenviados = 1
    /\ status.erros_download = 1

(* C23: a put of an entry is issued only after the get of that entry was
   issued in the same run and the download block returned without a
   download error being counted for the entry: the staged file it sends
   has the size of the source file; an entry whose download
   failed gets no upload session, no make_directory and no put, whatever
   the scratch area holds from an earlier run or entry. *)
C23_PutOnlyAfterOwnGet ==
    /\ [](Listed =>
              /\ \A j \in DOMAIN ops :
                     ops[j].op \in {"open_envio", "mkdir", "put"} =>
                         \E i \in 1..(j - 1) :
                             /\ ops[i].op = "get"
                             /\ ops[i].rel = ops[j].rel
                             /\ ops[i].ok
              /\ \A i \in FalhasDe("DownloadFailed") :
                     OpsDe(hist[i].rel, {"open_envio", "mkdir", "put"}) = {}
              /\ pc \in {"upload", "ensure", "put"} =>
                     /\ rel_path \in DOMAIN staged
                     /\ staged[rel_path] = srcFs[Cur.caminho].tamanho
                     /\ OpsDe(rel_path, {"get"}) # {}
                     /\ status.erros_download
                            = Cardinality(FalhasDe("DownloadFailed")))
    /\ [][(pc = "put" /\ exists(dstFs', destino_path)
           /\ dstFs' # dstFs /\ dstFs'[destino_path].tamanho # 0) =>
              dstFs'[destino_path].tamanho = srcFs[Cur.caminho].tamanho]_vars

(* In a second run the download of an entry fails while the scratch area
   still holds the copy the first run staged and published: no put is
   issued for the entry. *)
C23_Witness ==
    /\ run = 2
    /\ pc = "done"
    /\ \E i \in FalhasDe("DownloadFailed") :
           /\ hist[i].rel \in DOMAIN staged
           /\ staged[hist[i].rel] > 0
           /\ OpsDe(hist[i].rel, {"put"}) = {}
    /\ status.erros_download = 1

(* The entries whose download block raised after the staging get had
   returned: the scratch area holds the file with the size of the source. *)
FalhouComCopia ==
    {i \in FalhasDe("DownloadFailed") :
        /\ \E g \in OpsDe(hist[i].rel, {"get"}) : ops[g].ok
        /\ hist[i].rel \in DOMAIN staged
        /\ staged[hist[i].rel] = hist[i].tamanho}

(* C24: with keep_extra_local_copy every download that returns issued two
   gets, staging copy then extra copy; when the second get raises the
   staging copy is complete, the entry ends with one download error
   counted and no upload session, make_directory or put is issued for it.
   Without the option no second get is issued and an entry whose staging
   get returned always goes on to its upload. *)
C24_ExtraCopyFailureBlocksPublish ==
    (cfg # <<>> /\ Listed) =>
        /\ cfg.keep_extra_local_copy =>
               /\ \A i \in DOMAIN hist :
                      hist[i].fim \in {"Done", "UploadFailed"} =>
                          \E g \in OpsDe(hist[i].rel, {"get"}) :
                              /\ ops[g].ok
                              /\ g + 1 \in OpsDe(hist[i].rel, {"get_extra"})
                              /\ ops[g + 1].ok
               /\ \A j \in DOMAIN ops :
                      (ops[j].op = "get_extra" /\ ~ops[j].ok) =>
                          /\ j > 1
                          /\ ops[j - 1] = [ops[j] EXCEPT !.op = "get", !.ok = TRUE]
                          /\ OpsDe(ops[j].rel, {"open_envio", "mkdir", "put"}) = {}
                          /\ \E i \in FalhouComCopia : hist[i].rel = ops[j].rel
        /\ ~cfg.keep_extra_local_copy =>
               /\ \A j \in DOMAIN ops : ops[j].op # "get_extra"
               /\ FalhouComCopia = {}
        /\ pc \in {"loop", "log_ship", "done"} =>
               status.erros_download = Cardinality(FalhasDe("DownloadFailed"))

(* The option is on: the staging get of an entry wrote the file, the get
   of the extra copy raised; the run ended with one download error and
   without a put for the entry, whose path the destination lacks. *)
C24_Witness ==
    /\ pc = "done"
    /\ cfg.variant = "cliente2"
    /\ cfg.keep_extra_local_copy
    /\ status.erros_download = 1
    /\ status.novos = 1
    /\ \E i \in FalhouComCopia :
           /\ \E j \in OpsDe(hist[i].rel, {"get_extra"}) : ~ops[j].ok
           /\ OpsDe(hist[i].rel, {"put"}) = {}
           /\ ~exists(dstFs, DestinoDir \o hist[i].rel)

====
